---- MODULE Spec2Model ----
(***************************************************************************)
(* Model of musicRecognition&Organization/main.py: main() validates the    *)
(* target directory, process_music_files() enumerates the music files,     *)
(* fans out one recognition task per file inside an asyncio.TaskGroup,     *)
(* and then renames every recognised file to a sanitized                   *)
(* "{artist} - {title}.{ext}" name.                                        *)
(*                                                                         *)
(* Strings whose characters matter (file names, titles, artists,           *)
(* extensions) are sequences of one-character strings.  A path is a record *)
(* [dir, name]; the file system is a function from the existing paths to   *)
(* the identity of the content stored there (the path the content had when *)
(* the run started).                                                       *)
(***************************************************************************)
EXTENDS Integers, Sequences, FiniteSets, TLC

VARIABLES
    platform,      \* "posix" or "windows": decides what os.rename does on an existing target
    targetKind,    \* what args.directory resolves to: "missing", "file" or "dir"
    extension,     \* args.extension
    fs,            \* the directory tree: existing path -> content identity
    pc,            \* position of the program
    clientCreated, \* the Shazam client has been constructed
    music_files,   \* the list returned by get_music_files_sync
    tasks,         \* state of every task created in the TaskGroup
    results,       \* value returned by every finished recognize call
    idx,           \* position of the "for result in results" loop (0: not started)
    new_filename,  \* the sanitized name computed for music_files[idx]
    msgs,          \* lines printed by print_colored
    renames,       \* the os.rename calls that succeeded, in order
    error,         \* the exception that left process_music_files, or "none"
    extCount,      \* deletions made by an actor other than the program
    cand,          \* sanitization harness: candidate file name
    out1,          \* sanitization harness: sanitized candidate
    out2,          \* sanitization harness: sanitized out1
    stage          \* sanitization harness: number of applications made

progVars == <<platform, targetKind, extension, fs, pc, clientCreated, music_files,
              tasks, results, idx, new_filename, msgs, renames, error, extCount>>
sanVars == <<cand, out1, out2, stage>>
vars == <<platform, targetKind, extension, fs, pc, clientCreated, music_files,
          tasks, results, idx, new_filename, msgs, renames, error, extCount,
          cand, out1, out2, stage>>

----------------------------------------------------------------------------
(* Bounds *)

MaxExt == 1

MaxLen == 3

----------------------------------------------------------------------------
(* Characters and strings *)

Letters ==
    {"a","b","c","d","e","f","g","h","i","j","k","l","m",
     "n","o","p","q","r","s","t","u","v","w","x","y","z",
     "A","B","C","D","E","F","G","H","I","J","K","L","M",
     "N","O","P","Q","R","S","T","U","V","W","X","Y","Z"}

Digits == {"0","1","2","3","4","5","6","7","8","9"}

IsAlnum(c) == c \in Letters \cup Digits

MP3 == <<"m","p","3">>

FLAC == <<"f","l","a","c">>

Extension == {MP3, FLAC}

UnknownTitle == <<"U","n","k","n","o","w","n"," ","T","i","t","l","e">>

UnknownArtist == <<"U","n","k","n","o","w","n"," ","A","r","t","i","s","t">>

\* c.isalnum() or c in " -_."
KeepCharNoHyphen(c) == IsAlnum(c) \/ c \in {" ", "_", "."}

KeepChar(c) == IsAlnum(c) \/ c \in {" ", "-", "_", "."}

FilterChars(s) == SelectSeq(s, KeepChar)

\* str.replace(" ", "_", 1): only the first space is replaced
ReplaceFirstSpace(s) ==
    LET sp == {i \in 1..Len(s) : s[i] = " "}
    IN  [i \in 1..Len(s) |->
            IF i \in sp /\ (\A j \in sp : i <= j) THEN "_" ELSE s[i]]

\* str.replace(" ", "_")
ReplaceSpaces(s) == [i \in 1..Len(s) |-> IF s[i] = " " THEN "_" ELSE s[i]]

Sanitize(s) == ReplaceSpaces(FilterChars(s))

\* f"{artist} - {title}.{extension}"
Candidate(artist, title, ext) == artist \o <<" ", "-", " ">> \o title \o <<".">> \o ext

----------------------------------------------------------------------------
(* Recognition results *)

Absent == <<"<absent>">>

NoTrack == [track |-> FALSE, title |-> Absent, subtitle |-> Absent]

TrackAT == [track |-> TRUE, title |-> <<"T", ":">>, subtitle |-> <<"A", "/">>]

TrackEmpty == [track |-> TRUE, title |-> Absent, subtitle |-> Absent]

RecognitionResults == {NoTrack, TrackAT, TrackEmpty}

NoResult == [track |-> FALSE, title |-> <<"<pending>">>, subtitle |-> <<"<pending>">>]

\* res["track"] raises KeyError for every result
HasTrackAlways(res) == TRUE

\* res["track"] does not raise KeyError
HasTrack(res) == res.track

\* track.get("title", "Unknown Title")
TitleOf(res) == IF res.title = Absent THEN UnknownTitle ELSE res.title

\* track.get("subtitle", "Unknown Artist")
ArtistOf(res) == IF res.subtitle = Absent THEN UnknownArtist ELSE res.subtitle

NewFilename(res, ext) == Sanitize(Candidate(ArtistOf(res), TitleOf(res), ext))

----------------------------------------------------------------------------
(* Paths and the directory tree *)

Root == "root"

Sub == "root/sub"

P(d, n) == [dir |-> d, name |-> n]

InitPaths ==
    { P(Root, <<"x", ".", "m", "p", "3">>),
      P(Root, <<"A", "_", "-", "_", "T", ".", "m", "p", "3">>),
      P(Sub,  <<"x", ".", "m", "p", "3">>),
      P(Root, <<"y", ".", "f", "l", "a", "c">>) }

EndsWith(s, suf) ==
    /\ Len(s) >= Len(suf)
    /\ SubSeq(s, Len(s) - Len(suf) + 1, Len(s)) = suf

\* directory.rglob(f"*.{extension}"): every file of the tree whose name matches
Matching(tree, ext) == {p \in DOMAIN tree : EndsWith(p.name, <<".">> \o ext)}

Orders(S) ==
    {f \in [1..Cardinality(S) -> S] : \A i, j \in 1..Cardinality(S) : f[i] = f[j] => i = j}

\* directory / new_filename
TargetPath(name) == P(Root, name)

Remove(tree, p) == [q \in (DOMAIN tree) \ {p} |-> tree[q]]

Move(tree, src, dst) ==
    [q \in ((DOMAIN tree) \ {src}) \cup {dst} |-> IF q = dst THEN tree[src] ELSE tree[q]]

----------------------------------------------------------------------------
(* Initial states *)

SanIdle == cand = <<>> /\ out1 = <<>> /\ out2 = <<>> /\ stage = 0

Init ==
    /\ platform \in {"posix", "windows"}
    /\ targetKind \in {"missing", "file", "dir"}
    /\ extension \in Extension
    /\ \E S \in SUBSET InitPaths :
          /\ targetKind # "dir" => S = {}
          /\ fs = [p \in S |-> p]
    /\ pc = "start"
    /\ clientCreated = FALSE
    /\ music_files = <<>>
    /\ tasks = <<>>
    /\ results = <<>>
    /\ idx = 0
    /\ new_filename = <<>>
    /\ msgs = <<>>
    /\ renames = <<>>
    /\ error = "none"
    /\ extCount = 0
    /\ SanIdle

----------------------------------------------------------------------------
(* main *)

\* not (target_dir.exists() or target_dir.is_dir())
DirRejected == ~(targetKind # "missing" \/ targetKind = "dir")

MainStart ==
    /\ pc = "start"
    /\ IF DirRejected
       THEN /\ msgs' = Append(msgs, [kind |-> "nodir", file |-> <<>>])
            /\ pc' = "exited"
            /\ UNCHANGED clientCreated
       ELSE /\ clientCreated' = TRUE
            /\ pc' = "enumerate"
            /\ UNCHANGED msgs
    /\ UNCHANGED <<platform, targetKind, extension, fs, music_files, tasks, results,
                   idx, new_filename, renames, error, extCount>>
    /\ UNCHANGED sanVars

ExitCode ==
    CASE pc = "done" -> 0
      [] pc = "exited" -> 1
      [] pc = "raised" -> 1
      [] OTHER -> -1

----------------------------------------------------------------------------
(* process_music_files: enumeration and task creation *)

Enumerate ==
    /\ pc = "enumerate"
    /\ \E order \in Orders(Matching(fs, extension)) :
          /\ music_files' = order
          /\ IF Len(order) = 0
             THEN /\ msgs' = Append(msgs, [kind |-> "nofiles", file |-> <<>>])
                  /\ pc' = "done"
                  /\ UNCHANGED <<tasks, results>>
             ELSE /\ tasks' = [i \in 1..Len(order) |-> "running"]
                  /\ results' = [i \in 1..Len(order) |-> NoResult]
                  /\ pc' = "recognize"
                  /\ UNCHANGED msgs
    /\ UNCHANGED <<platform, targetKind, extension, fs, clientCreated,
                   idx, new_filename, renames, error, extCount>>
    /\ UNCHANGED sanVars

----------------------------------------------------------------------------
(* process_music_files: the TaskGroup *)

Finished == {"done", "failed", "cancelled"}

\* the TaskGroup leaves its body as soon as one task has finished
SomeTaskFinished == \E i \in 1..Len(tasks) : tasks[i] \in Finished

\* TaskGroup.__aexit__ returns only when no task is left unfinished
AllTasksFinished == \A i \in 1..Len(tasks) : tasks[i] \in Finished

\* a failed task is only collected, as with gather(return_exceptions=True)
GroupIgnoresFailure == FALSE

\* TaskGroup.__aexit__ raises an ExceptionGroup when a task raised
GroupFailed == \E i \in 1..Len(tasks) : tasks[i] = "failed"

\* client.recognize(file) returns res
RecognizeReturn(i, res) ==
    /\ pc = "recognize"
    /\ tasks[i] = "running"
    /\ tasks' = [tasks EXCEPT ![i] = "done"]
    /\ results' = [results EXCEPT ![i] = res]
    /\ UNCHANGED <<platform, targetKind, extension, fs, pc, clientCreated, music_files,
                   idx, new_filename, msgs, renames, error, extCount>>
    /\ UNCHANGED sanVars

\* client.recognize(file) raises: the TaskGroup cancels every unfinished task
RecognizeRaise(i) ==
    /\ pc = "recognize"
    /\ tasks[i] = "running"
    /\ tasks' = [j \in 1..Len(tasks) |->
                    IF j = i THEN "failed"
                    ELSE IF tasks[j] = "running" THEN "cancelling"
                    ELSE tasks[j]]
    /\ UNCHANGED <<platform, targetKind, extension, fs, pc, clientCreated, music_files,
                   results, idx, new_filename, msgs, renames, error, extCount>>
    /\ UNCHANGED sanVars

\* a cancelled recognize call ends with CancelledError
TaskCancelled(i) ==
    /\ pc = "recognize"
    /\ tasks[i] = "cancelling"
    /\ tasks' = [tasks EXCEPT ![i] = "cancelled"]
    /\ UNCHANGED <<platform, targetKind, extension, fs, pc, clientCreated, music_files,
                   results, idx, new_filename, msgs, renames, error, extCount>>
    /\ UNCHANGED sanVars

\* end of the "async with asyncio.TaskGroup()" block
TaskGroupExit ==
    /\ pc = "recognize"
    /\ AllTasksFinished
    /\ IF GroupFailed
       THEN /\ pc' = "raised"
            /\ error' = "ExceptionGroup"
            /\ UNCHANGED idx
       ELSE /\ pc' = "rename"
            /\ idx' = 1
            /\ UNCHANGED error
    /\ UNCHANGED <<platform, targetKind, extension, fs, clientCreated, music_files,
                   tasks, results, new_filename, msgs, renames, extCount>>
    /\ UNCHANGED sanVars

----------------------------------------------------------------------------
(* process_music_files: the rename loop *)

\* the existence test is left out
SourceExistsAlways(p) == TRUE

\* Path(working_file).exists()
SourceExists(p) == p \in DOMAIN fs

\* what result.result() raises, "none" when it returns
ResultError(i) ==
    CASE tasks[i] = "done" -> "none"
      [] tasks[i] = "failed" -> "RecognizeError"
      [] tasks[i] \in {"cancelling", "cancelled"} -> "CancelledError"
      [] OTHER -> "InvalidStateError"

NextPc == IF idx = Len(music_files) THEN "done" ELSE "rename"

\* one iteration of "for result in results" up to the existence test
Consume ==
    /\ pc = "rename"
    /\ idx \in 1..Len(music_files)
    /\ LET working_file == music_files[idx]
           res == results[idx]
           name == NewFilename(res, extension)
       IN  IF ResultError(idx) # "none"
           THEN /\ pc' = "raised"
                /\ error' = ResultError(idx)
                /\ UNCHANGED <<idx, new_filename, msgs>>
           ELSE IF ~HasTrack(res)
           THEN /\ msgs' = Append(msgs, [kind |-> "nomatch", file |-> working_file])
                /\ pc' = NextPc
                /\ idx' = idx + 1
                /\ UNCHANGED <<new_filename, error>>
           ELSE /\ msgs' = Append(msgs, [kind |-> "renaming", file |-> working_file])
                /\ new_filename' = name
                /\ IF SourceExists(working_file)
                   THEN /\ pc' = "renaming"
                        /\ UNCHANGED idx
                   ELSE /\ pc' = NextPc
                        /\ idx' = idx + 1
                /\ UNCHANGED error
    /\ UNCHANGED <<platform, targetKind, extension, fs, clientCreated, music_files,
                   tasks, results, renames, extCount>>
    /\ UNCHANGED sanVars

\* what os.rename(src, dst) raises, "none" when it succeeds: an existing
\* target is replaced on POSIX and refused on Windows; renaming a file to
\* its own path succeeds and changes nothing
RenameError(src, dst) ==
    IF src \notin DOMAIN fs THEN "FileNotFoundError"
    ELSE IF dst \in DOMAIN fs /\ dst # src /\ platform = "windows" THEN "FileExistsError"
    ELSE "none"

\* Path(working_file).rename(directory / new_filename)
DoRename ==
    /\ pc = "renaming"
    /\ LET src == music_files[idx]
           dst == TargetPath(new_filename)
       IN  IF RenameError(src, dst) # "none"
           THEN /\ pc' = "raised"
                /\ error' = RenameError(src, dst)
                /\ UNCHANGED <<fs, renames, idx>>
           ELSE /\ fs' = Move(fs, src, dst)
                /\ renames' = Append(renames, [src |-> src, dst |-> dst, content |-> fs[src],
                                               replaced |-> dst \in DOMAIN fs /\ dst # src])
                /\ pc' = NextPc
                /\ idx' = idx + 1
                /\ UNCHANGED error
    /\ UNCHANGED <<platform, targetKind, extension, clientCreated, music_files,
                   tasks, results, new_filename, msgs, extCount>>
    /\ UNCHANGED sanVars

----------------------------------------------------------------------------
(* Another process deletes a file of the tree while the program runs *)

ExternalDelete(p) ==
    /\ pc \in {"recognize", "rename", "renaming"}
    /\ extCount < MaxExt
    /\ p \in DOMAIN fs
    /\ fs' = Remove(fs, p)
    /\ extCount' = extCount + 1
    /\ UNCHANGED <<platform, targetKind, extension, pc, clientCreated, music_files,
                   tasks, results, idx, new_filename, msgs, renames, error>>
    /\ UNCHANGED sanVars

----------------------------------------------------------------------------

Next ==
    \/ MainStart
    \/ Enumerate
    \/ \E i \in 1..Len(tasks) : \E res \in RecognitionResults : RecognizeReturn(i, res)
    \/ \E i \in 1..Len(tasks) : RecognizeRaise(i)
    \/ \E i \in 1..Len(tasks) : TaskCancelled(i)
    \/ TaskGroupExit
    \/ Consume
    \/ DoRename
    \/ \E p \in DOMAIN fs : ExternalDelete(p)

Spec == Init /\ [][Next]_vars

----------------------------------------------------------------------------
(* Sanitization harness: the sanitizer applied to a candidate name, then   *)
(* to its own output.                                                      *)

Alphabet == {"a", "1", " ", "-", "_", ".", "/", "!"}

RECURSIVE StringsUpTo(_)
StringsUpTo(n) ==
    IF n = 0 THEN {<<>>}
    ELSE LET shorter == StringsUpTo(n - 1)
         IN  shorter \cup {Append(s, c) : s \in {t \in shorter : Len(t) = n - 1}, c \in Alphabet}

ExTitle == <<"S","o","n","g",":"," ","T","i","t","l","e","!">>

ExArtist == <<"A","r","t","i","s","t","/","N","a","m","e">>

ExCandidate == Candidate(ExArtist, ExTitle, MP3)

SanInit ==
    /\ cand \in StringsUpTo(MaxLen) \cup {ExCandidate}
    /\ out1 = <<>>
    /\ out2 = <<>>
    /\ stage = 0
    /\ platform = "posix"
    /\ targetKind = "dir"
    /\ extension = MP3
    /\ fs = <<>>
    /\ pc = "idle"
    /\ clientCreated = FALSE
    /\ music_files = <<>>
    /\ tasks = <<>>
    /\ results = <<>>
    /\ idx = 0
    /\ new_filename = <<>>
    /\ msgs = <<>>
    /\ renames = <<>>
    /\ error = "none"
    /\ extCount = 0

SanitizeOnce ==
    /\ stage = 0
    /\ out1' = Sanitize(cand)
    /\ stage' = 1
    /\ UNCHANGED <<cand, out2>>
    /\ UNCHANGED progVars

SanitizeAgain ==
    /\ stage = 1
    /\ out2' = Sanitize(out1)
    /\ stage' = 2
    /\ UNCHANGED <<cand, out1>>
    /\ UNCHANGED progVars

SanNext == SanitizeOnce \/ SanitizeAgain

SanSpec == SanInit /\ [][SanNext]_vars

----------------------------------------------------------------------------
(* Properties *)

ConsumedSomething ==
    \/ idx >= 1
    \/ renames # <<>>
    \/ \E k \in DOMAIN msgs : msgs[k].kind \in {"nomatch", "renaming"}

RenamedFrom(p) == \E k \in DOMAIN renames : renames[k].src = p

\* C1: the TaskGroup is a barrier: no result is consumed and no file is
\* renamed while a recognition call of the run is still unfinished.
C1_Barrier ==
    ConsumedSomething =>
        \A i \in 1..Len(tasks) : tasks[i] \in {"done", "failed", "cancelled"}

C1_Witness == Len(tasks) >= 2 /\ Len(renames) >= 1 /\ pc = "done"

\* C2: no content is moved by more than one rename of the run (stated for
\* the runs in which no other process touches the tree).
C2_RenamedAtMostOnce ==
    extCount = 0 =>
        \A c \in InitPaths :
            Cardinality({k \in DOMAIN renames :
                            renames[k].content = c /\ renames[k].src # renames[k].dst}) <= 1

\* C3: a rename whose target already exists is skipped: the tree is left
\* as it is, nothing is recorded as renamed and no error is raised (stated
\* for the runs in which no other process touches the tree).
C3_CollisionSkipped ==
    [][ ( /\ pc = "renaming"
          /\ pc' # "renaming"
          /\ extCount = 0
          /\ P(Root, new_filename) \in DOMAIN fs
          /\ P(Root, new_filename) # music_files[idx] )
        => (fs' = fs /\ renames' = renames /\ error' = "none") ]_vars

\* C4: every performed rename leaves the file in the directory where it was
\* found (stated for the runs in which no other process touches the tree).
C4_SameDirectory ==
    extCount = 0 =>
        \A k \in DOMAIN renames : renames[k].dst.dir = renames[k].src.dir

\* C5: a file whose result has no "track" gets a "no match" message naming
\* it, is never the source of a rename, and the loop goes on with the next
\* file of the enumeration.
C5_NoMatchKept ==
    /\ [](\A i \in 1..Len(music_files) :
            (tasks[i] = "done" /\ ~results[i].track) =>
                /\ ~RenamedFrom(music_files[i])
                /\ \A k \in DOMAIN msgs :
                       msgs[k].file = music_files[i] => msgs[k].kind = "nomatch"
                /\ idx > i =>
                       \E k \in DOMAIN msgs :
                           msgs[k] = [kind |-> "nomatch", file |-> music_files[i]])
    /\ [][ ( /\ pc = "rename"
             /\ idx \in 1..Len(music_files)
             /\ tasks[idx] = "done"
             /\ ~results[idx].track
             /\ (pc' # pc \/ idx' # idx) )
           => ( /\ idx' = idx + 1
                /\ pc' = (IF idx = Len(music_files) THEN "done" ELSE "rename")
                /\ error' = "none"
                /\ fs' = fs
                /\ renames' = renames ) ]_vars

C5_Witness ==
    \E i \in 1..Len(music_files) :
        /\ tasks[i] = "done"
        /\ ~results[i].track
        /\ idx > i
        /\ \E j \in 1..Len(music_files) : j > i /\ RenamedFrom(music_files[j])

\* C6: when the target path is missing or is not a directory, main reports
\* it and exits with a non-zero code, and neither the client nor any
\* recognition task is ever created.
C6_InvalidDirExits ==
    targetKind # "dir" =>
        /\ ~clientCreated
        /\ tasks = <<>>
        /\ pc # "start" =>
              /\ pc = "exited"
              /\ ExitCode = 1
              /\ \E k \in DOMAIN msgs : msgs[k].kind = "nodir"

\* C7: when the source file is missing as its rename step is reached, the
\* step renames nothing, raises nothing and the loop goes on with the next
\* file.
C7_MissingSourceSkipped ==
    [][ ( /\ pc = "rename"
          /\ idx \in 1..Len(music_files)
          /\ tasks[idx] = "done"
          /\ results[idx].track
          /\ music_files[idx] \notin DOMAIN fs
          /\ (pc' # pc \/ idx' # idx) )
        => ( /\ renames' = renames
             /\ fs' = fs
             /\ error' = "none"
             /\ idx' = idx + 1
             /\ pc' = (IF idx = Len(music_files) THEN "done" ELSE "rename") ) ]_vars

C7_Witness ==
    /\ pc = "done"
    /\ error = "none"
    /\ \E i \in 1..Len(music_files) :
          /\ results[i].track
          /\ ~RenamedFrom(music_files[i])
          /\ music_files[i] \notin DOMAIN fs
          /\ \E j \in 1..Len(music_files) : j > i /\ RenamedFrom(music_files[j])

Count(s, c) == Cardinality({i \in 1..Len(s) : s[i] = c})

\* C8 as stated: title "Song: Title!", artist "Artist/Name" and extension
\* "mp3" give ArtistName_-_SongTitle.mp3.
C8_ExampleAsStated ==
    (stage >= 1 /\ cand = ExCandidate) =>
        out1 = <<"A","r","t","i","s","t","N","a","m","e","_","-","_",
                 "S","o","n","g","T","i","t","l","e",".","m","p","3">>

\* C8 amended: title "Song: Title!", artist "Artist/Name" and extension
\* "mp3" give ArtistName_-_Song_Title.mp3; every character other than
\* alphanumerics, space, hyphen, underscore and dot is stripped and every
\* single space becomes one underscore (runs are not collapsed).
C8_Example ==
    stage >= 1 =>
        /\ cand = ExCandidate =>
              out1 = <<"A","r","t","i","s","t","N","a","m","e","_","-","_",
                       "S","o","n","g","_","T","i","t","l","e",".","m","p","3">>
        /\ Count(out1, "_") = Count(cand, " ") + Count(cand, "_")
        /\ Count(out1, "-") = Count(cand, "-")
        /\ Count(out1, ".") = Count(cand, ".")
        /\ \A i \in 1..Len(out1) : out1[i] \notin {" ", "/", "!", ":"}

C8_Witness == stage >= 1 /\ cand = ExCandidate

\* C9: sanitizing a sanitized name returns it unchanged.
C9_Idempotent == stage = 2 => out2 = out1

C9_Witness == stage = 2 /\ Count(cand, " ") >= 2 /\ out1 # cand

AnyFailed == \E i \in 1..Len(tasks) : tasks[i] = "failed"

\* C10: once a recognition call has raised, no call is left running, the
\* TaskGroup block ends by raising, and no result is consumed and no file
\* renamed in the run, whatever calls had already returned.
C10_AllOrNothing ==
    /\ [](AnyFailed =>
            /\ renames = <<>>
            /\ idx = 0
            /\ pc \in {"recognize", "raised"}
            /\ \A i \in 1..Len(tasks) : tasks[i] # "running")
    /\ [][ (AnyFailed /\ pc = "recognize" /\ pc' # pc)
           => (pc' = "raised" /\ error' = "ExceptionGroup") ]_vars

C10_Witness ==
    /\ pc = "raised"
    /\ error = "ExceptionGroup"
    /\ renames = <<>>
    /\ \E i \in 1..Len(tasks) : tasks[i] = "done" /\ results[i].track
    /\ \E i \in 1..Len(tasks) : tasks[i] = "cancelled"

====
